---- MODULE Spec2Model ----
(***************************************************************************)
(* rs-whep-play: a WHEP client.  main.rs negotiates one WebRTC session     *)
(* (offer, local description, candidate gathering, HTTP POST, answer),     *)
(* dispatches arriving tracks to a GStreamer appsrc and relays RTP packets  *)
(* into it; utils.rs holds the shared variant of the relay and the         *)
(* pipeline factory.  The peer connection, the HTTP server and the         *)
(* operator are the environment: their moves are nondeterministic.         *)
(***************************************************************************)
EXTENDS Integers, Sequences, FiniteSets, TLC

VARIABLES
    entry,          \* which track dispatch the binary uses: "main" (main.rs on_track) or "utils" (create_processing)
    payload_type,   \* main.rs:120  let mut payload_type = 102u8 (or args[2])
    pc,             \* position of the main task
    mainErr,        \* the step whose error main returned ("none" while running)
    prefs,          \* transceiver codec preferences, in order
    handlers,       \* callbacks registered on the peer connection
    offer,          \* main.rs:225  the description create_offer returned
    offer_str,      \* main.rs:226  serialized offer text kept by main
    localDesc,      \* the peer connection's local description (candidates are added while gathering)
    iceGathering,   \* the peer connection's gathering state
    httpPosts,      \* bodies of the POST requests the signaling server received
    response,       \* the signaling server's response in flight (its body)
    answer_str,     \* main.rs:236  body of the signaling response
    remoteDesc,     \* the peer connection's remote description
    connState,      \* last ICE connection state reported to the callback
    doneChan,       \* number of values queued in the mpsc channel done_tx/done_rx
    terminationSignal, \* the fan-out notify of the data model; nothing in src/ creates or sets one
    lastSend,       \* main.rs:218  result of the latest done_tx.try_send(()), which the callback drops
    interrupt,      \* Ctrl-C delivered and not yet consumed by the select
    woke,           \* the select branch that resumed main
    closeCalls,     \* number of peer_connection.close() calls
    closed,         \* the peer connection is closed
    nTracks,        \* number of tracks delivered to the track callback
    lastTrack,      \* the track of the latest delivery, with the outcome of its dispatch
    relays,         \* relay tasks (handle_data), one record per spawned task
    panics          \* panics raised so far, by site

vars == << entry, payload_type, pc, mainErr, prefs, handlers, offer, offer_str, localDesc,
           iceGathering, httpPosts, response, answer_str, remoteDesc, connState, doneChan,
           terminationSignal, lastSend, interrupt, woke, closeCalls, closed,
           nTracks, lastTrack, relays, panics >>

(***************************************************************************)
(* Bounds of the model.                                                    *)
(***************************************************************************)
MaxTracks == 2
MaxPackets == 2
MaxCandidates == 1

(***************************************************************************)
(* Program constants.                                                      *)
(***************************************************************************)
DefaultPayloadType == 102
ClockRate == 90000
ChannelCapacity == 1
U8Max == 255

MIME_TYPE_H264 == "video/H264"
MIME_TYPE_VP8 == "video/VP8"

None == "none"

\* MIME types the engine can report for an arriving track.
TrackMimes == {"video/H264", "video/VP8", "video/VP9", "video/AV1"}

\* The MIME types of the recognized set of the pipeline factory.
RecognizedMimes == {"video/H264", "video/H265", "video/VP8", "video/VP9"}

\* str::to_lowercase on the MIME strings of the model.
to_lowercase(s) ==
    CASE s = "video/H264" -> "video/h264"
      [] s = "video/h264" -> "video/h264"
      [] s = "video/VP8"  -> "video/vp8"
      [] s = "video/VP9"  -> "video/vp9"
      [] s = "video/H265" -> "video/h265"
      [] s = "video/AV1"  -> "video/av1"
      [] OTHER -> s

\* serde_json::to_string of a string: the JSON string literal of the text.
to_string(sdp) == [json |-> sdp]

\* An SDP text: the codecs it advertises, in order, and its candidate lines.
Sdp(codecs, n) == [text |-> "sdp", codecs |-> codecs, candidates |-> n]

\* A text that is no SDP, and the value of a text not yet produced.
Garbage == [text |-> "garbage", codecs |-> << >>, candidates |-> 0]
NoText == [text |-> "none", codecs |-> << >>, candidates |-> 0]

\* The value of a description not yet set.
NoDesc == [sdp_type |-> "none", sdp |-> NoText]

\* The value of lastTrack before any track has arrived.
NoTrack == [mime |-> None, pt |-> 0, clock_rate |-> 0, outcome |-> None,
            factory_calls |-> 0, factory_pt |-> 0]

\* The state before set_codec_preferences, for a binary with the track dispatch e and
\* the payload type p (main.rs:120-127: 102, or the second argument parsed as a u8).
InitOf(e, p) ==
    /\ entry = e
    /\ payload_type = p
    /\ pc = "set_codec_preferences"
    /\ mainErr = None
    /\ prefs = << >>
    /\ handlers = {}
    /\ offer = NoDesc
    /\ offer_str = NoText
    /\ localDesc = NoDesc
    /\ iceGathering = "new"
    /\ httpPosts = << >>
    /\ response = NoText
    /\ answer_str = NoText
    /\ remoteDesc = NoDesc
    /\ connState = "New"
    /\ doneChan = 0
    /\ terminationSignal = FALSE
    /\ lastSend = None
    /\ interrupt = FALSE
    /\ woke = None
    /\ closeCalls = 0
    /\ closed = FALSE
    /\ nTracks = 0
    /\ lastTrack = NoTrack
    /\ relays = << >>
    /\ panics = {}

\* The state before set_codec_preferences with the default payload type.
InitWith(e) == InitOf(e, DefaultPayloadType)

\* main.rs: the track callback is the closure of main.rs:184-207.
Init == InitWith("main")

\* main.rs:120-127  the payload types args[2] can parse to: every u8.
ArgPayloadTypes == 0..U8Max

\* main.rs started with any payload type on its command line.
InitArgs == \E p \in ArgPayloadTypes : InitOf("main", p)

\* An entry point whose track callback hands the track to create_processing of utils.rs.
InitUtils == InitWith("utils")

\* The process is running: main has not returned and has not panicked.
Alive == pc # "done"

\* A `?` on an Err: main returns the error of that step.
Fail(step) ==
    /\ pc' = "return"
    /\ mainErr' = step

(***************************************************************************)
(* The main task, main.rs:157-254, one action per await.                   *)
(***************************************************************************)

\* main.rs:157-181  tr.set_codec_preferences(vec![H264 at payload_type, VP8 at payload_type + 1]).await?
\* payload_type + 1 on a u8 of 255 panics in a build with overflow checks and wraps to 0 without them.
set_codec_preferences ==
    /\ pc = "set_codec_preferences"
    /\ \/ /\ payload_type + 1 <= U8Max
          /\ prefs' = << [mime |-> MIME_TYPE_H264, pt |-> payload_type],
                         [mime |-> MIME_TYPE_VP8, pt |-> payload_type + 1] >>
          /\ pc' = "on_track"
          /\ UNCHANGED << mainErr, panics >>
       \/ /\ payload_type + 1 > U8Max
          /\ prefs' = << [mime |-> MIME_TYPE_H264, pt |-> payload_type],
                         [mime |-> MIME_TYPE_VP8, pt |-> (payload_type + 1) % (U8Max + 1)] >>
          /\ pc' = "on_track"
          /\ UNCHANGED << mainErr, panics >>
       \/ /\ payload_type + 1 > U8Max
          /\ panics' = panics \cup {"main:payload_type + 1"}
          /\ pc' = "done"
          /\ UNCHANGED << mainErr, prefs >>
       \/ /\ Fail("set_codec_preferences")
          /\ UNCHANGED << prefs, panics >>
    /\ UNCHANGED << entry, payload_type, handlers, offer, offer_str, localDesc, iceGathering,
                    httpPosts, response, answer_str, remoteDesc, connState, doneChan,
                    terminationSignal, lastSend, interrupt, woke, closeCalls, closed,
                    nTracks, lastTrack, relays >>

\* main.rs:184-207  peer_connection.on_track(Box::new(...)): registers the track callback.
register_on_track ==
    /\ pc = "on_track"
    /\ handlers' = handlers \cup {"on_track"}
    /\ pc' = "on_ice_connection_state_change"
    /\ UNCHANGED << entry, payload_type, mainErr, prefs, offer, offer_str, localDesc,
                    iceGathering, httpPosts, response, answer_str, remoteDesc, connState,
                    doneChan, terminationSignal, lastSend, interrupt, woke, closeCalls,
                    closed, nTracks, lastTrack, relays, panics >>

\* main.rs:209-222  mpsc::channel::<()>(1), then on_ice_connection_state_change registers the callback.
register_on_ice_connection_state_change ==
    /\ pc = "on_ice_connection_state_change"
    /\ doneChan' = 0
    /\ handlers' = handlers \cup {"on_ice_connection_state_change"}
    /\ pc' = "create_offer"
    /\ UNCHANGED << entry, payload_type, mainErr, prefs, offer, offer_str, localDesc,
                    iceGathering, httpPosts, response, answer_str, remoteDesc, connState,
                    terminationSignal, lastSend, interrupt, woke, closeCalls,
                    closed, nTracks, lastTrack, relays, panics >>

\* The codecs a description advertises: the payload types of the preferences, in order.
Advertised(p) == [i \in 1..Len(p) |-> p[i].pt]

\* main.rs:225-226  create_offer(None).await?; offer_str = serde_json::to_string(&offer.sdp)?
\* No candidate has been gathered when the offer is generated.
create_offer ==
    /\ pc = "create_offer"
    /\ \/ /\ offer' = [sdp_type |-> "offer", sdp |-> Sdp(Advertised(prefs), 0)]
          /\ offer_str' = to_string(offer'.sdp)
          /\ pc' = "set_local_description"
          /\ UNCHANGED mainErr
       \/ /\ Fail("create_offer")
          /\ UNCHANGED << offer, offer_str >>
    /\ UNCHANGED << entry, payload_type, prefs, handlers, localDesc, iceGathering,
                    httpPosts, response, answer_str, remoteDesc, connState, doneChan,
                    terminationSignal, lastSend, interrupt, woke, closeCalls, closed,
                    nTracks, lastTrack, relays, panics >>

\* main.rs:229  peer_connection.set_local_description(offer).await?  Gathering starts.
set_local_description ==
    /\ pc = "set_local_description"
    /\ \/ /\ localDesc' = offer
          /\ iceGathering' = "gathering"
          /\ pc' = "gathering"
          /\ UNCHANGED mainErr
       \/ /\ Fail("set_local_description")
          /\ UNCHANGED << localDesc, iceGathering >>
    /\ UNCHANGED << entry, payload_type, prefs, handlers, offer, offer_str,
                    httpPosts, response, answer_str, remoteDesc, connState, doneChan,
                    terminationSignal, lastSend, interrupt, woke, closeCalls, closed,
                    nTracks, lastTrack, relays, panics >>

\* Mutant of gathering_complete: main goes on to the WHEP call without awaiting the promise.
gathering_complete_NoWait ==
    /\ pc = "gathering"
    /\ pc' = "whep"
    /\ UNCHANGED << entry, payload_type, mainErr, prefs, handlers, offer, offer_str, localDesc,
                    iceGathering, httpPosts, response, answer_str, remoteDesc, connState,
                    doneChan, terminationSignal, lastSend, interrupt, woke, closeCalls,
                    closed, nTracks, lastTrack, relays, panics >>

\* main.rs:232-233  gathering_complete_promise().await; gather_complete.recv().await
\* The receive returns once the peer connection reports that gathering is complete.
gathering_complete ==
    /\ pc = "gathering"
    /\ iceGathering = "complete"
    /\ pc' = "whep"
    /\ UNCHANGED << entry, payload_type, mainErr, prefs, handlers, offer, offer_str, localDesc,
                    iceGathering, httpPosts, response, answer_str, remoteDesc, connState,
                    doneChan, terminationSignal, lastSend, interrupt, woke, closeCalls,
                    closed, nTracks, lastTrack, relays, panics >>

\* Bodies the signaling server can answer with: an SDP answer or text that is no SDP.
ResponseBodies == { Sdp(<< payload_type >>, 1), Garbage }

\* main.rs:47-50 (utils.rs:20-23)  client.post(url).body(offer_str).send().await?
\* The server receives the body main passes at main.rs:236, or the transport fails.
whep_send ==
    /\ pc = "whep"
    /\ \/ /\ httpPosts' = Append(httpPosts, offer_str)
          /\ \E b \in ResponseBodies : response' = b
          /\ pc' = "whep_text"
          /\ UNCHANGED mainErr
       \/ /\ Fail("whep")
          /\ UNCHANGED << httpPosts, response >>
    /\ UNCHANGED << entry, payload_type, prefs, handlers, offer, offer_str, localDesc,
                    iceGathering, answer_str, remoteDesc, connState, doneChan,
                    terminationSignal, lastSend, interrupt, woke, closeCalls, closed,
                    nTracks, lastTrack, relays, panics >>

\* Mutant of whep_text: a failure to read the body sends the POST again.
whep_text_Retry ==
    /\ pc = "whep_text"
    /\ \/ /\ answer_str' = response
          /\ pc' = "set_remote_description"
       \/ /\ pc' = "whep"
          /\ UNCHANGED answer_str
    /\ response' = NoText
    /\ UNCHANGED << entry, payload_type, mainErr, prefs, handlers, offer, offer_str, localDesc,
                    iceGathering, httpPosts, remoteDesc, connState,
                    doneChan, terminationSignal, lastSend, interrupt, woke, closeCalls, closed,
                    nTracks, lastTrack, relays, panics >>

\* main.rs:51-53 (utils.rs:24-26)  response.text().await?; Ok(answer_str)
\* The status of the response is not looked at.
whep_text ==
    /\ pc = "whep_text"
    /\ \/ /\ answer_str' = response
          /\ pc' = "set_remote_description"
          /\ UNCHANGED mainErr
       \/ /\ Fail("whep")
          /\ UNCHANGED answer_str
    /\ response' = NoText
    /\ UNCHANGED << entry, payload_type, prefs, handlers, offer, offer_str, localDesc,
                    iceGathering, httpPosts, remoteDesc, connState, doneChan,
                    terminationSignal, lastSend, interrupt, woke, closeCalls, closed,
                    nTracks, lastTrack, relays, panics >>

\* main.rs:237-238  json!({"type": "answer", "sdp": answer_str}) parsed as RTCSessionDescription:
\* any text is accepted as the sdp field.
from_str(text) == [sdp_type |-> "answer", sdp |-> text]

\* The peer connection parses the SDP of a description when it is applied.
ParsesAsSdp(text) == text.text = "sdp"

\* main.rs:237-241  peer_connection.set_remote_description(answer).await?
set_remote_description ==
    /\ pc = "set_remote_description"
    /\ \/ /\ ParsesAsSdp(from_str(answer_str).sdp)
          /\ remoteDesc' = from_str(answer_str)
          /\ pc' = "select"
          /\ UNCHANGED mainErr
       \/ /\ Fail("set_remote_description")
          /\ UNCHANGED remoteDesc
    /\ UNCHANGED << entry, payload_type, prefs, handlers, offer, offer_str, localDesc,
                    iceGathering, httpPosts, response, answer_str, connState, doneChan,
                    terminationSignal, lastSend, interrupt, woke, closeCalls, closed,
                    nTracks, lastTrack, relays, panics >>

\* Mutant of select: main waits for Ctrl-C only and never polls done_rx.
select_CtrlCOnly ==
    /\ pc = "select"
    /\ interrupt
    /\ interrupt' = FALSE
    /\ woke' = "ctrl_c"
    /\ pc' = "close"
    /\ UNCHANGED << entry, payload_type, mainErr, prefs, handlers, offer, offer_str, localDesc,
                    iceGathering, httpPosts, response, answer_str, remoteDesc, connState,
                    doneChan, terminationSignal, lastSend, closeCalls, closed, nTracks,
                    lastTrack, relays, panics >>

\* main.rs:243-250  tokio::select! { done_rx.recv() => ..., ctrl_c() => ... }
\* One ready branch resumes main; a received value leaves the channel.
select ==
    /\ pc = "select"
    /\ \/ /\ doneChan > 0
          /\ doneChan' = doneChan - 1
          /\ woke' = "done_rx"
          /\ UNCHANGED interrupt
       \/ /\ interrupt
          /\ interrupt' = FALSE
          /\ woke' = "ctrl_c"
          /\ UNCHANGED doneChan
    /\ pc' = "close"
    /\ UNCHANGED << entry, payload_type, mainErr, prefs, handlers, offer, offer_str, localDesc,
                    iceGathering, httpPosts, response, answer_str, remoteDesc, connState,
                    terminationSignal, lastSend, closeCalls, closed, nTracks, lastTrack,
                    relays, panics >>

\* Mutant of close: the call returns without closing the session.
close_NoClose ==
    /\ pc = "close"
    /\ closeCalls' = closeCalls + 1
    /\ pc' = "return"
    /\ UNCHANGED << entry, payload_type, mainErr, prefs, handlers, offer, offer_str, localDesc,
                    iceGathering, httpPosts, response, answer_str, remoteDesc, connState,
                    doneChan, terminationSignal, lastSend, interrupt, woke, closed,
                    nTracks, lastTrack, relays, panics >>

\* main.rs:252  peer_connection.close().await?  The session is closed even when close reports an error.
close ==
    /\ pc = "close"
    /\ closeCalls' = closeCalls + 1
    /\ closed' = TRUE
    /\ \/ /\ pc' = "return"
          /\ UNCHANGED mainErr
       \/ Fail("close")
    /\ UNCHANGED << entry, payload_type, prefs, handlers, offer, offer_str, localDesc,
                    iceGathering, httpPosts, response, answer_str, remoteDesc, connState,
                    doneChan, terminationSignal, lastSend, interrupt, woke,
                    nTracks, lastTrack, relays, panics >>

\* A relay task the runtime drops while it is still in its loop.
Dropped(t) == IF t.state = "RUNNING" THEN [t EXCEPT !.state = "TERMINATED", !.exit = "shutdown"] ELSE t

\* main.rs:116,254  main returns (Ok(()) or the error of a `?`): #[tokio::main] shuts the
\* runtime down, which drops every task that is still running.
main_return ==
    /\ pc = "return"
    /\ pc' = "done"
    /\ relays' = [r \in 1..Len(relays) |-> Dropped(relays[r])]
    /\ UNCHANGED << entry, payload_type, mainErr, prefs, handlers, offer, offer_str, localDesc,
                    iceGathering, httpPosts, response, answer_str, remoteDesc, connState,
                    doneChan, terminationSignal, lastSend, interrupt, woke, closeCalls,
                    closed, nTracks, lastTrack, panics >>

(***************************************************************************)
(* The peer connection (environment): candidate gathering.                 *)
(***************************************************************************)

\* A gathered candidate is added to the peer connection's local description.
GatherCandidate ==
    /\ Alive
    /\ iceGathering = "gathering"
    /\ localDesc.sdp.candidates < MaxCandidates
    /\ localDesc' = [localDesc EXCEPT !.sdp.candidates = @ + 1]
    /\ UNCHANGED << entry, payload_type, pc, mainErr, prefs, handlers, offer, offer_str,
                    iceGathering, httpPosts, response, answer_str, remoteDesc, connState,
                    doneChan, terminationSignal, lastSend, interrupt, woke, closeCalls,
                    closed, nTracks, lastTrack, relays, panics >>

\* The peer connection reports that gathering is complete.
GatheringDone ==
    /\ Alive
    /\ iceGathering = "gathering"
    /\ iceGathering' = "complete"
    /\ UNCHANGED << entry, payload_type, pc, mainErr, prefs, handlers, offer, offer_str,
                    localDesc, httpPosts, response, answer_str, remoteDesc, connState,
                    doneChan, terminationSignal, lastSend, interrupt, woke, closeCalls,
                    closed, nTracks, lastTrack, relays, panics >>

(***************************************************************************)
(* The ICE connection state callback, main.rs:213-222.                     *)
(***************************************************************************)

ConnectionStates == {"Checking", "Connected", "Disconnected", "Failed", "Closed"}

\* Mutant of try_send: the channel is unbounded, every send is queued.
try_send_Unbounded(chan) == [chan |-> chan + 1, res |-> "Ok"]

\* Sender::try_send on the channel of capacity 1: queues the value unless the channel is full.
try_send(chan) ==
    IF chan < ChannelCapacity THEN [chan |-> chan + 1, res |-> "Ok"]
                              ELSE [chan |-> chan, res |-> "Full"]

\* Mutant of on_ice_connection_state_change: done_tx.try_send(()).unwrap(), which panics on a full channel.
on_ice_connection_state_change_Unwrap(connection_state) ==
    /\ Alive
    /\ "on_ice_connection_state_change" \in handlers
    /\ connection_state # connState
    /\ (connection_state = "Closed") <=> closed
    /\ connState' = connection_state
    /\ doneChan' = IF connection_state = "Failed" THEN try_send(doneChan).chan ELSE doneChan
    /\ panics' = IF connection_state = "Failed" /\ try_send(doneChan).res # "Ok"
                  THEN panics \cup {"on_ice_connection_state_change:try_send"}
                  ELSE panics
    /\ lastSend' = IF connection_state = "Failed" THEN try_send(doneChan).res ELSE lastSend
    /\ UNCHANGED << entry, payload_type, pc, mainErr, prefs, handlers, offer, offer_str,
                    localDesc, iceGathering, httpPosts, response, answer_str, remoteDesc,
                    terminationSignal, interrupt, woke, closeCalls, closed, nTracks, lastTrack,
                    relays >>

\* Mutant of on_ice_connection_state_change: the callback also sends on Disconnected.
on_ice_connection_state_change_Disconnected(connection_state) ==
    /\ Alive
    /\ "on_ice_connection_state_change" \in handlers
    /\ connection_state # connState
    /\ (connection_state = "Closed") <=> closed
    /\ connState' = connection_state
    /\ doneChan' = IF connection_state \in {"Failed", "Disconnected"}
                   THEN try_send(doneChan).chan ELSE doneChan
    /\ lastSend' = IF connection_state \in {"Failed", "Disconnected"}
                   THEN try_send(doneChan).res ELSE lastSend
    /\ UNCHANGED << entry, payload_type, pc, mainErr, prefs, handlers, offer, offer_str,
                    localDesc, iceGathering, httpPosts, response, answer_str, remoteDesc,
                    terminationSignal, interrupt, woke, closeCalls, closed, nTracks, lastTrack,
                    relays, panics >>

\* main.rs:214-221  the callback: on Failed, let _ = done_tx.try_send(()); the result is dropped.
on_ice_connection_state_change(connection_state) ==
    /\ Alive
    /\ "on_ice_connection_state_change" \in handlers
    /\ connection_state # connState
    /\ (connection_state = "Closed") <=> closed
    /\ connState' = connection_state
    /\ doneChan' = IF connection_state = "Failed" THEN try_send(doneChan).chan ELSE doneChan
    /\ lastSend' = IF connection_state = "Failed" THEN try_send(doneChan).res ELSE lastSend
    /\ UNCHANGED << entry, payload_type, pc, mainErr, prefs, handlers, offer, offer_str,
                    localDesc, iceGathering, httpPosts, response, answer_str, remoteDesc,
                    terminationSignal, interrupt, woke, closeCalls, closed, nTracks, lastTrack,
                    relays,
                    panics >>

\* main.rs:247  Ctrl-C while main waits in the select: the ctrl_c() branch becomes ready.
ctrl_c ==
    /\ pc = "select"
    /\ ~interrupt
    /\ interrupt' = TRUE
    /\ UNCHANGED << entry, payload_type, pc, mainErr, prefs, handlers, offer, offer_str,
                    localDesc, iceGathering, httpPosts, response, answer_str, remoteDesc,
                    connState, doneChan, terminationSignal, lastSend, woke, closeCalls,
                    closed, nTracks, lastTrack, relays, panics >>

(***************************************************************************)
(* Track arrival: the pipeline factories and the dispatch.                 *)
(***************************************************************************)

\* main.rs:56-74  create_appsrc_consumer: caps with the encoding name, the payload type and clock-rate 90000.
create_appsrc_consumer(pt, codec) == [codec |-> codec, pt |-> pt, clock_rate |-> ClockRate]

\* main.rs:76-94  create_h264_consumer: Err when a GStreamer element cannot be built or linked.
create_h264_consumer(pt, built) ==
    IF built THEN [ok |-> TRUE, sink |-> create_appsrc_consumer(pt, "H264")]
             ELSE [ok |-> FALSE, sink |-> None]

\* main.rs:96-114  create_vp8_consumer
create_vp8_consumer(pt, built) ==
    IF built THEN [ok |-> TRUE, sink |-> create_appsrc_consumer(pt, "VP8")]
             ELSE [ok |-> FALSE, sink |-> None]

\* utils.rs:106-127  configure_appsrc: caps with the encoding name, the payload type and the clock rate given.
configure_appsrc(pt, clock_rate, codec) == [codec |-> codec, pt |-> pt, clock_rate |-> clock_rate]

\* utils.rs:65-89  the match on the MIME type: the encoding name, or unimplemented!() for any other text.
CodecOf(mimetype) ==
    CASE mimetype = "video/H265" -> "H265"
      [] mimetype = "video/H264" -> "H264"
      [] mimetype = "video/VP8"  -> "VP8"
      [] mimetype = "video/VP9"  -> "VP9"
      [] OTHER -> "unimplemented"

\* utils.rs:56-104  create_pipeline: panics on an unmanaged MIME type, Err when an element cannot be built.
create_pipeline(pt, clock_rate, mimetype, built) ==
    IF CodecOf(mimetype) = "unimplemented" THEN [ok |-> FALSE, panic |-> TRUE, sink |-> None]
    ELSE IF ~built THEN [ok |-> FALSE, panic |-> FALSE, sink |-> None]
    ELSE [ok |-> TRUE, panic |-> FALSE, sink |-> configure_appsrc(pt, clock_rate, CodecOf(mimetype))]

\* tokio::spawn(handle_data(&appsrc, track)): a new relay task, in its loop, owning the
\* track t and the sink.
NewRelay(t, sink) ==
    [track |-> t, sink |-> sink, state |-> "RUNNING", reads |-> 0, pushed |-> << >>,
     accepted |-> None, result |-> None, exit |-> None]

\* The payload types the engine can report for a track of this MIME type: the declared
\* one when the codec is in the preference list, the first declared one otherwise.
TrackPayloadTypes(mime) ==
    LET declared == { i \in 1..Len(prefs) : to_lowercase(prefs[i].mime) = to_lowercase(mime) }
    IN  IF declared # {} THEN { prefs[i].pt : i \in declared }
                         ELSE { prefs[1].pt }

\* Mutant of TrackCanArrive: tracks are delivered as soon as the callback is registered.
TrackCanArrive_Early ==
    /\ Alive
    /\ "on_track" \in handlers
    /\ ~closed
    /\ nTracks < MaxTracks

\* The peer connection delivers a track once media can flow: the callback is registered,
\* the remote description is applied and the session is not closed.
TrackCanArrive ==
    /\ Alive
    /\ "on_track" \in handlers
    /\ remoteDesc # NoDesc
    /\ ~closed
    /\ nTracks < MaxTracks

\* Mutant of on_track: the second branch is a plain else, so every track that is not H264
\* gets a VP8 consumer and a relay task.
on_track_Else(track, built) ==
    LET mime_type == to_lowercase(track.mime)
        t == [id |-> nTracks + 1, mime |-> track.mime, pt |-> track.pt]
        appsrc == IF mime_type = to_lowercase(MIME_TYPE_H264)
                  THEN create_h264_consumer(payload_type, built)
                  ELSE create_vp8_consumer(payload_type, built)
    IN  IF appsrc.ok
        THEN /\ lastTrack' = [track EXCEPT !.outcome = "relay", !.factory_calls = 1, !.factory_pt = payload_type]
             /\ relays' = Append(relays, NewRelay(t, appsrc.sink))
             /\ UNCHANGED panics
        ELSE /\ lastTrack' = [track EXCEPT !.outcome = "panic", !.factory_calls = 1, !.factory_pt = payload_type]
             /\ panics' = panics \cup {"on_track:unwrap"}
             /\ UNCHANGED relays

\* main.rs:185-206  the track callback of main.rs: H264 and VP8 (compared in lower case)
\* get a consumer built with main's payload_type and a relay task; any other MIME type
\* falls through both branches.
on_track(track, built) ==
    LET mime_type == to_lowercase(track.mime)
        t == [id |-> nTracks + 1, mime |-> track.mime, pt |-> track.pt]
    IN  IF mime_type = to_lowercase(MIME_TYPE_H264) THEN
            LET appsrc == create_h264_consumer(payload_type, built)
            IN  IF appsrc.ok
                THEN /\ lastTrack' = [track EXCEPT !.outcome = "relay", !.factory_calls = 1, !.factory_pt = payload_type]
                     /\ relays' = Append(relays, NewRelay(t, appsrc.sink))
                     /\ UNCHANGED panics
                ELSE /\ lastTrack' = [track EXCEPT !.outcome = "panic", !.factory_calls = 1, !.factory_pt = payload_type]
                     /\ panics' = panics \cup {"on_track:unwrap"}
                     /\ UNCHANGED relays
        ELSE IF mime_type = to_lowercase(MIME_TYPE_VP8) THEN
            LET appsrc == create_vp8_consumer(payload_type, built)
            IN  IF appsrc.ok
                THEN /\ lastTrack' = [track EXCEPT !.outcome = "relay", !.factory_calls = 1, !.factory_pt = payload_type]
                     /\ relays' = Append(relays, NewRelay(t, appsrc.sink))
                     /\ UNCHANGED panics
                ELSE /\ lastTrack' = [track EXCEPT !.outcome = "panic", !.factory_calls = 1, !.factory_pt = payload_type]
                     /\ panics' = panics \cup {"on_track:unwrap"}
                     /\ UNCHANGED relays
        ELSE /\ lastTrack' = [track EXCEPT !.outcome = "dropped"]
             /\ UNCHANGED << relays, panics >>

\* utils.rs:29-36  create_processing(payload_type, clock_rate, codec, track):
\* create_pipeline(...).unwrap(), the pipeline set to Playing, the relay task spawned.
create_processing(pt, clock_rate, codec, track, built) ==
    LET made == create_pipeline(pt, clock_rate, codec, built)
        t == [id |-> nTracks + 1, mime |-> track.mime, pt |-> track.pt]
    IN  IF made.ok
        THEN /\ lastTrack' = [track EXCEPT !.outcome = "relay", !.factory_calls = 1, !.factory_pt = pt]
             /\ relays' = Append(relays, NewRelay(t, made.sink))
             /\ UNCHANGED panics
        ELSE /\ lastTrack' = [track EXCEPT !.outcome = "panic", !.factory_calls = 1, !.factory_pt = pt]
             /\ panics' = panics \cup {IF made.panic THEN "create_pipeline:unimplemented"
                                                     ELSE "create_processing:unwrap"}
             /\ UNCHANGED relays

\* A track arrives and the binary's track callback runs on it.
TrackArrives ==
    /\ TrackCanArrive
    /\ \E mime \in TrackMimes, built \in BOOLEAN :
         \E p \in TrackPayloadTypes(mime) :
            LET track == [mime |-> mime, pt |-> p, clock_rate |-> ClockRate, outcome |-> None,
                          factory_calls |-> 0, factory_pt |-> 0]
            IN  IF entry = "main"
                THEN on_track(track, built)
                ELSE create_processing(track.pt, track.clock_rate, track.mime, track, built)
    /\ nTracks' = nTracks + 1
    /\ UNCHANGED << entry, payload_type, pc, mainErr, prefs, handlers, offer, offer_str,
                    localDesc, iceGathering, httpPosts, response, answer_str, remoteDesc,
                    connState, doneChan, terminationSignal, lastSend, interrupt, woke,
                    closeCalls, closed >>

(***************************************************************************)
(* The relay loop, handle_data (main.rs:29-45, utils.rs:38-54).            *)
(***************************************************************************)

\* Mutant of AfterReadOk: the result of push_buffer is propagated with ?, so a rejected
\* buffer ends the task with an error.
AfterReadOk_PushFatal(t, marshalled, accepted) ==
    LET n == t.reads + 1
    IN  IF ~marshalled
        THEN [t EXCEPT !.reads = n, !.state = "TERMINATED", !.result = "Err", !.exit = "marshal_error"]
        ELSE IF ~accepted
        THEN [t EXCEPT !.reads = n, !.pushed = Append(@, n), !.accepted = "Err",
                       !.state = "TERMINATED", !.result = "Err", !.exit = "push_error"]
        ELSE [t EXCEPT !.reads = n, !.pushed = Append(@, n), !.accepted = "Ok"]

\* The loop after read_rtp returned Ok(packet): marshal()? returns the error out of the
\* task; otherwise the buffer is pushed, the result of push_buffer is dropped, and the
\* loop goes on.
AfterReadOk(t, marshalled, accepted) ==
    LET n == t.reads + 1
    IN  IF ~marshalled
        THEN [t EXCEPT !.reads = n, !.state = "TERMINATED", !.result = "Err", !.exit = "marshal_error"]
        ELSE [t EXCEPT !.reads = n, !.pushed = Append(@, n),
                       !.accepted = IF accepted THEN "Ok" ELSE "Err"]

\* Mutant of AfterReadErr: the read error is returned out of the task.
AfterReadErr_Propagate(t) ==
    [t EXCEPT !.state = "TERMINATED", !.result = "Err", !.exit = "read_error"]

\* The loop after read_rtp returned Err: info!("read_rtp error"); return Ok(()).
AfterReadErr(t) ==
    [t EXCEPT !.state = "TERMINATED", !.result = "Ok", !.exit = "read_error"]

\* track.read_rtp() yields the next packet; a closed session yields no packet.
ReadOk(r) ==
    /\ Alive
    /\ relays[r].state = "RUNNING"
    /\ ~closed
    /\ relays[r].reads < MaxPackets
    /\ \E marshalled \in BOOLEAN, accepted \in BOOLEAN :
         relays' = [relays EXCEPT ![r] = AfterReadOk(@, marshalled, accepted)]
    /\ UNCHANGED << entry, payload_type, pc, mainErr, prefs, handlers, offer, offer_str,
                    localDesc, iceGathering, httpPosts, response, answer_str, remoteDesc,
                    connState, doneChan, terminationSignal, lastSend, interrupt, woke,
                    closeCalls, closed, nTracks, lastTrack, panics >>

\* Mutant of ReadErr: the relay task that ends on a read failure signals completion.
ReadErr_Signal(r) ==
    /\ Alive
    /\ relays[r].state = "RUNNING"
    /\ relays' = [relays EXCEPT ![r] = AfterReadErr(@)]
    /\ doneChan' = try_send(doneChan).chan
    /\ lastSend' = try_send(doneChan).res
    /\ UNCHANGED << entry, payload_type, pc, mainErr, prefs, handlers, offer, offer_str,
                    localDesc, iceGathering, httpPosts, response, answer_str, remoteDesc,
                    connState, terminationSignal, interrupt, woke,
                    closeCalls, closed, nTracks, lastTrack, panics >>

\* track.read_rtp() fails: the track is no longer receivable (always so once the session is closed).
ReadErr(r) ==
    /\ Alive
    /\ relays[r].state = "RUNNING"
    /\ relays' = [relays EXCEPT ![r] = AfterReadErr(@)]
    /\ UNCHANGED << entry, payload_type, pc, mainErr, prefs, handlers, offer, offer_str,
                    localDesc, iceGathering, httpPosts, response, answer_str, remoteDesc,
                    connState, doneChan, terminationSignal, lastSend, interrupt, woke,
                    closeCalls, closed, nTracks, lastTrack, panics >>

MainStep ==
    \/ set_codec_preferences
    \/ register_on_track
    \/ register_on_ice_connection_state_change
    \/ create_offer
    \/ set_local_description
    \/ gathering_complete
    \/ whep_send
    \/ whep_text
    \/ set_remote_description
    \/ select
    \/ close
    \/ main_return

Next ==
    \/ MainStep
    \/ GatherCandidate
    \/ GatheringDone
    \/ \E s \in ConnectionStates : on_ice_connection_state_change(s)
    \/ ctrl_c
    \/ TrackArrives
    \/ \E r \in 1..Len(relays) : ReadOk(r)
    \/ \E r \in 1..Len(relays) : ReadErr(r)

\* The program of main.rs with its whole environment.
Spec == Init /\ [][Next]_vars

\* The session alone: the runs in which no relay task is scheduled between its spawn and
\* the end of the process.  The relay steps change nothing but the relay's own record.
NextSession ==
    \/ MainStep
    \/ GatherCandidate
    \/ GatheringDone
    \/ \E s \in ConnectionStates : on_ice_connection_state_change(s)
    \/ ctrl_c
    \/ TrackArrives

SpecSession == Init /\ [][NextSession]_vars

\* The session with a main task that is eventually resumed whenever it can go on: the
\* runtime polls a task that is ready and the calls on the peer connection return.
SpecLifecycle == Init /\ [][NextSession]_vars /\ WF_vars(MainStep)

\* The declaration of the codecs for every payload type the operator can pass: the
\* main task up to set_codec_preferences, and its return when that call fails.
NextArgs ==
    \/ set_codec_preferences
    \/ main_return

SpecArgs == InitArgs /\ [][NextArgs]_vars

\* The same runs for an entry point that dispatches through utils.rs.
SpecUtils == InitUtils /\ [][NextSession]_vars

\* The relay tasks: the runs in which gathering finds no candidate and the only
\* connection state reported is Failed.
NextRelay ==
    \/ MainStep
    \/ GatheringDone
    \/ on_ice_connection_state_change("Failed")
    \/ ctrl_c
    \/ TrackArrives
    \/ \E r \in 1..Len(relays) : ReadOk(r)
    \/ \E r \in 1..Len(relays) : ReadErr(r)

SpecRelay == Init /\ [][NextRelay]_vars

\* The operator-interrupt path: the runs in which no connection state is reported.  A
\* step of the main task that can be taken is eventually taken: the runtime polls a
\* task that is ready and the calls on the peer connection return.
NextInterrupt ==
    \/ MainStep
    \/ GatheringDone
    \/ ctrl_c
    \/ TrackArrives
    \/ \E r \in 1..Len(relays) : ReadOk(r)
    \/ \E r \in 1..Len(relays) : ReadErr(r)

SpecInterrupt == Init /\ [][NextInterrupt]_vars /\ WF_vars(MainStep)

(***************************************************************************)
(* Properties.                                                             *)
(***************************************************************************)

\* Main has got past main.rs:241: set_remote_description returned Ok.
NegotiationDone == pc \in {"select", "close", "return", "done"} /\ mainErr \in {None, "close"}

\* The steps of the negotiation that can return an error.
NegotiationSteps == {"create_offer", "set_local_description", "whep", "set_remote_description"}

\* C1: the negotiation events happen in the order offer created, local description
\* set, gathering reported complete, POST sent and answered, remote description (an
\* answer) set: an event has happened only if every earlier one has, the POST is never
\* sent before gathering is complete, and main is never past a step whose event is missing.
C1_NegotiationOrder ==
    /\ (localDesc # NoDesc => offer # NoDesc /\ offer_str # NoText)
    /\ (iceGathering # "new" => localDesc # NoDesc)
    /\ (pc = "whep" => iceGathering = "complete")
    /\ (Len(httpPosts) > 0 => iceGathering = "complete")
    /\ (response # NoText \/ answer_str # NoText => Len(httpPosts) > 0)
    /\ (remoteDesc # NoDesc =>
            /\ answer_str # NoText
            /\ Len(httpPosts) > 0
            /\ iceGathering = "complete"
            /\ localDesc # NoDesc
            /\ remoteDesc.sdp_type = "answer")
    /\ (NegotiationDone => remoteDesc # NoDesc)

\* A negotiation that succeeded: main waits in the select with the answer applied.
C1_Witness == pc = "select" /\ remoteDesc # NoDesc /\ Len(httpPosts) = 1

\* C2: whenever a relay task exists, the remote description has been applied and
\* set_remote_description has returned to main.
C2_NoRelayBeforeRemoteDescription ==
    Len(relays) > 0 => remoteDesc # NoDesc /\ NegotiationDone

\* A relay task runs while main waits in the select, the track callback having been
\* registered before the offer was created.
C2_Witness ==
    /\ Len(relays) > 0
    /\ relays[1].state = "RUNNING"
    /\ pc = "select"
    /\ "on_track" \in handlers

\* C5: whatever the interleaving of Failed events and the interrupt, close is called at
\* most once, the state callback does not panic and main returns no error because of them.
C5_ShutdownIdempotent ==
    /\ closeCalls <= 1
    /\ "on_ice_connection_state_change:try_send" \notin panics
    /\ (woke # None => mainErr \in {None, "close"})
    /\ doneChan <= ChannelCapacity

\* Both triggers arrived before the wait was resumed: main took the Ctrl-C branch, the
\* value of a Failed event is still queued, and the session has been closed once.
C5_Witness ==
    /\ woke = "ctrl_c"
    /\ doneChan = 1
    /\ connState = "Failed"
    /\ closeCalls = 1
    /\ pc = "done"

\* C6 (as claimed): a track whose MIME type is outside the recognized set always ends
\* the dispatch in a panic, never in a silent drop and never with a relay task.
C6_UnrecognizedMimeFailsLoudly ==
    (lastTrack.mime # None /\ lastTrack.mime \notin RecognizedMimes)
        => lastTrack.outcome = "panic"

\* C8 (as claimed): the body of the POST is the serialization of the local description
\* as it stands once gathering is complete.
C8_PostBodyIsFinalLocalDescription ==
    Len(httpPosts) > 0 => httpPosts[1] = to_string(localDesc.sdp)

\* C9: at most one POST is ever sent, and when a negotiation step has failed main is on
\* its way out with that error, the remote description is not set, no track has been
\* dispatched, no relay task exists and the session was not closed by the select.
C9_FailedNegotiationAborts ==
    /\ Len(httpPosts) <= 1
    /\ (mainErr \in NegotiationSteps =>
            /\ pc \in {"return", "done"}
            /\ remoteDesc = NoDesc
            /\ nTracks = 0
            /\ Len(relays) = 0
            /\ woke = None)

\* The answer of the server is no SDP: set_remote_description failed and main has returned.
C9_Witness ==
    /\ mainErr = "set_remote_description"
    /\ answer_str = Garbage
    /\ Len(httpPosts) = 1
    /\ pc = "done"

\* C3 (as claimed): the step in which the callback observes Failed while a relay task is
\* running both broadcasts the termination signal and leaves a value in the completion channel.
C3_FailedBroadcastsAndEnqueues ==
    [][ (connState' = "Failed" /\ connState # "Failed"
            /\ \E r \in 1..Len(relays) : relays[r].state = "RUNNING")
        => (terminationSignal' /\ doneChan' = 1) ]_vars

\* C4 (as claimed): once Failed has been observed (the moment of the broadcast), the next
\* step of a running relay task ends it.
C4_CancelledAtNextStep ==
    [][ \A r \in 1..Len(relays) :
            (connState = "Failed" /\ relays[r].state = "RUNNING" /\ relays'[r] # relays[r])
                => relays'[r].state = "TERMINATED" ]_vars

\* The packets 1..n in read order.
InOrder(n) == [i \in 1..n |-> i]

\* C7: a relay task that ended on a read failure after N successful reads is TERMINATED,
\* returned Ok, and pushed exactly the N packets it read, in read order; a TERMINATED
\* task never reads or pushes again.
C7_ReadFailureEndsGracefully ==
    /\ [](\A r \in 1..Len(relays) :
            relays[r].exit = "read_error" =>
                /\ relays[r].state = "TERMINATED"
                /\ relays[r].result = "Ok"
                /\ relays[r].pushed = InOrder(relays[r].reads))
    /\ [][ \A r \in 1..Len(relays) :
            relays[r].state = "TERMINATED" => relays'[r] = relays[r] ]_vars

\* A relay task read MaxPackets packets and then ended on a read failure.
C7_Witness ==
    \E r \in 1..Len(relays) :
        /\ relays[r].exit = "read_error"
        /\ relays[r].reads = MaxPackets
        /\ Len(relays[r].pushed) = MaxPackets

\* Every relay task has ended.
AllTerminated == \A r \in 1..Len(relays) : relays[r].state = "TERMINATED"

\* C10: on the interrupt path nothing is broadcast: the Ctrl-C and the select that
\* consumes it leave every relay task as it was; once close has been called a relay task
\* reads no further packet, its read can fail, and its only step is to end; and every
\* relay task has eventually ended.
C10_InterruptPath ==
    /\ [][ (interrupt' # interrupt \/ woke' # woke)
            => (relays' = relays /\ ~terminationSignal') ]_vars
    /\ [][ \A r \in 1..Len(relays) :
            (closeCalls >= 1 /\ relays'[r] # relays[r]) => relays'[r].state = "TERMINATED" ]_vars
    /\ [](\A r \in 1..Len(relays) :
            (closed /\ Alive /\ relays[r].state = "RUNNING") => ENABLED ReadErr(r))
    /\ (woke = "ctrl_c" ~> AllTerminated)

\* Main has taken the Ctrl-C branch and closed the session while a relay task, which has
\* read a packet, is still in its loop.
C10_Witness ==
    /\ woke = "ctrl_c"
    /\ closed
    /\ pc = "return"
    /\ \E r \in 1..Len(relays) : relays[r].state = "RUNNING" /\ relays[r].reads > 0

\* The relay tasks bound to the t-th delivered track.
RelaysOf(t) == {r \in 1..Len(relays) : relays[r].track.id = t}

\* C11: a delivered track whose MIME type is recognized, and whose sink did not fail to
\* build, has had the consumer factory invoked exactly once (for an H264 track, with the
\* session's payload type, 102 by default), and exactly one relay task bound to it, owning
\* a sink of its codec; no track ever has two relay tasks.
C11_OneRelayPerAcceptedTrack ==
    /\ \A t \in 1..nTracks : Cardinality(RelaysOf(t)) <= 1
    /\ (lastTrack.mime \in RecognizedMimes /\ lastTrack.outcome # "panic")
        => /\ lastTrack.factory_calls = 1
           /\ (lastTrack.mime = MIME_TYPE_H264 => lastTrack.factory_pt = payload_type)
           /\ Cardinality(RelaysOf(nTracks)) = 1
           /\ \A r \in RelaysOf(nTracks) :
                relays[r].track.mime = lastTrack.mime /\ relays[r].sink.codec = CodecOf(lastTrack.mime)

\* The MIME types declared in the transceiver's preference list, in lower case.
DeclaredMimes == {to_lowercase(prefs[i].mime) : i \in 1..Len(prefs)}

\* C12: every relay task is bound to a track whose MIME type (compared in lower case, as
\* the track callback compares it) is one of those declared in the preference list.
C12_RelayOnlyForDeclaredMime ==
    \A r \in 1..Len(relays) : to_lowercase(relays[r].track.mime) \in DeclaredMimes

\* A relay task exists for a declared codec, and the latest track, of a MIME type that
\* was not declared, went through the track callback without getting one.
C12_Witness ==
    /\ Len(relays) = 1
    /\ nTracks = 2
    /\ to_lowercase(lastTrack.mime) \notin DeclaredMimes
    /\ lastTrack.outcome = "dropped"

\* C13: a step in which the sink rejects a pushed buffer leaves the relay task RUNNING
\* with no result and no exit; the rejection is never the task's error (a task that ended
\* with Err ended on a marshal error); after it the next read is possible while packets
\* arrive; and no packet is pushed twice (the pushed packets are 1, 2, ... in order).
C13_PushFailureSwallowed ==
    /\ [][ \A r \in 1..Len(relays) :
            (Len(relays'[r].pushed) > Len(relays[r].pushed) /\ relays'[r].accepted = "Err")
                => /\ relays'[r].state = "RUNNING"
                   /\ relays'[r].result = None
                   /\ relays'[r].exit = None ]_vars
    /\ [](\A r \in 1..Len(relays) :
            /\ relays[r].result = "Err" => relays[r].exit = "marshal_error"
            /\ relays[r].pushed = InOrder(Len(relays[r].pushed))
            /\ Len(relays[r].pushed) <= relays[r].reads
            /\ (relays[r].state = "RUNNING" /\ relays[r].accepted = "Err" /\ Alive /\ ~closed
                    /\ relays[r].reads < MaxPackets)
                => ENABLED ReadOk(r))

\* A relay task whose latest push was rejected is still in its loop, before its next read.
C13_Witness ==
    \E r \in 1..Len(relays) :
        /\ relays[r].state = "RUNNING"
        /\ relays[r].accepted = "Err"
        /\ relays[r].reads = 1
        /\ relays[r].pushed = << 1 >>
        /\ ~closed

\* C14: a step in which a relay task has read a packet leaves the task RUNNING, whether
\* or not the packet could be serialized: no task ends on a marshal error.
C14_MarshalFailureNonFatal ==
    [][ \A r \in 1..Len(relays) :
            relays'[r].reads > relays[r].reads
                => /\ relays'[r].state = "RUNNING"
                   /\ relays'[r].exit # "marshal_error" ]_vars

\* C15: the completion channel never holds more than one value; a Failed event that
\* finds the slot full leaves the channel, the main task and the panics as they were (the
\* send reports Full and the callback drops it); and a full slot never keeps the callback
\* from running on a Failed event.
C15_SingleSlotBestEffort ==
    /\ [](doneChan <= ChannelCapacity)
    /\ [][ (connState' = "Failed" /\ connState # "Failed" /\ doneChan = ChannelCapacity)
            => /\ doneChan' = doneChan
               /\ lastSend' = "Full"
               /\ panics' = panics
               /\ pc' = pc
               /\ mainErr' = mainErr ]_vars
    /\ []((Alive /\ "on_ice_connection_state_change" \in handlers /\ ~closed
                /\ connState # "Failed" /\ doneChan = ChannelCapacity)
            => ENABLED on_ice_connection_state_change("Failed"))

\* A second Failed event found the slot still full: the send was refused and the one
\* queued value is still there, with main on its way and no panic.
C15_Witness ==
    /\ lastSend = "Full"
    /\ connState = "Failed"
    /\ doneChan = ChannelCapacity
    /\ panics = {}
    /\ Alive

\* C16: every Failed event reported once the callback is registered, at whatever step
\* the main task is, leaves the slot of the completion channel full; the slot is emptied
\* by nothing but the select of the main task, which then goes on to close; and once
\* the main task waits in the select with the slot full, the wait returns and the
\* session is closed.
C16_FailedNeverLost ==
    /\ [][ (connState' = "Failed" /\ connState # "Failed") => doneChan' = ChannelCapacity ]_vars
    /\ [][ doneChan' < doneChan => (pc = "select" /\ pc' = "close" /\ woke' = "done_rx") ]_vars
    /\ ((pc = "select" /\ doneChan = ChannelCapacity) ~> (closed /\ woke # None))

\* Failed was reported while the main task was still in the HTTP call: the value is
\* queued and the main task has not yet reached the select.
C16_Witness ==
    /\ pc = "whep_text"
    /\ connState = "Failed"
    /\ lastSend = "Ok"
    /\ doneChan = ChannelCapacity
    /\ ~closed

\* C17: a change to a connection state other than Failed leaves the completion channel
\* and the result of the latest send as they were, and a value enters the channel in no
\* step but a Failed event; the select resumes on done_rx only when a value is queued,
\* and with an empty channel and no interrupt it cannot resume at all; the session is
\* closed only after the select has resumed.
C17_OnlyFailedTriggersShutdown ==
    /\ [][ (connState' # connState /\ connState' # "Failed")
            => (doneChan' = doneChan /\ lastSend' = lastSend) ]_vars
    /\ [][ doneChan' > doneChan => (connState' = "Failed" /\ connState # "Failed") ]_vars
    /\ [][ (woke' = "done_rx" /\ woke # "done_rx") => doneChan > 0 ]_vars
    /\ []((pc = "select" /\ doneChan = 0 /\ ~interrupt) => ~ENABLED select)
    /\ [](closeCalls >= 1 => woke \in {"done_rx", "ctrl_c"})
    /\ [](lastSend = None => (doneChan = 0 /\ woke # "done_rx"))

\* The connection went through states other than Failed while the main task waits in
\* the select: nothing is queued, nothing was ever sent, and the session is open.
C17_Witness ==
    /\ pc = "select"
    /\ connState = "Disconnected"
    /\ lastSend = None
    /\ doneChan = 0
    /\ ~interrupt
    /\ ~closed

\* C18: while the main task has not returned, a step that changes one relay task (a
\* read, a read failure, the end of the task) changes no other relay task, keeps that
\* task's track and sink, queues nothing on the completion channel, and neither closes
\* the session nor moves the main task.
C18_RelayTasksIndependent ==
    [][ \A r \in 1..Len(relays) :
            (pc # "return" /\ relays'[r] # relays[r])
                => /\ Len(relays') = Len(relays)
                   /\ \A q \in 1..Len(relays) : q # r => relays'[q] = relays[q]
                   /\ relays'[r].track = relays[r].track
                   /\ relays'[r].sink = relays[r].sink
                   /\ doneChan' = doneChan
                   /\ lastSend' = lastSend
                   /\ closeCalls' = closeCalls
                   /\ closed' = closed
                   /\ pc' = pc ]_vars

\* One relay task has ended on a read failure while another, which has read a packet,
\* is still in its loop, with nothing queued and the session open.
C18_Witness ==
    /\ Len(relays) = 2
    /\ \E r, q \in 1..Len(relays) :
        /\ relays[r].state = "TERMINATED" /\ relays[r].exit = "read_error"
        /\ relays[q].state = "RUNNING" /\ relays[q].reads > 0
    /\ doneChan = 0
    /\ ~closed

\* The payload type declared in the preference list for a MIME type that is declared.
DeclaredPayloadType(mime) ==
    LET i == CHOOSE i \in 1..Len(prefs) : to_lowercase(prefs[i].mime) = to_lowercase(mime)
    IN  prefs[i].pt

\* C19: the sink of every relay task is configured with the payload type that the
\* preference list declares for the codec of the task's track.
C19_SinkPayloadTypeIsDeclared ==
    \A r \in 1..Len(relays) :
        to_lowercase(relays[r].track.mime) \in DeclaredMimes
            => relays[r].sink.pt = DeclaredPayloadType(relays[r].track.mime)

\* C20: for every payload type given on the command line, computing payload_type + 1
\* raises no overflow panic, and the declared list is H264 at payload_type and VP8 at
\* payload_type + 1, two distinct payload types within 0..255.
C20_PayloadTypesDistinctInRange ==
    /\ "main:payload_type + 1" \notin panics
    /\ prefs # << >>
        => /\ prefs[1].pt = payload_type
           /\ prefs[2].pt = payload_type + 1
           /\ prefs[1].pt # prefs[2].pt
           /\ prefs[1].pt \in 0..U8Max
           /\ prefs[2].pt \in 0..U8Max
====
